---- MODULE Spec2Model ----
(***************************************************************************)
(* Attendance_Impulse: the attendance reconciliation state machine.        *)
(*                                                                         *)
(* The model follows src/routes/employee_routes.py (process_attendance,    *)
(* the two sweeps, the employee routes), src/routes/admin_routes.py        *)
(* (approve_attendance, reject_attendance, dashboard),                     *)
(* src/utils/gps_extractor.py (extract_gps_and_datetime) and               *)
(* src/models/attendance.py (the two tables).                              *)
(*                                                                         *)
(* Time is in whole seconds since midnight of day 0 (photo timestamps have *)
(* one-second resolution).  Coordinates are integers on a metre grid and   *)
(* the distance of two points is measured on that grid.                    *)
(***************************************************************************)
EXTENDS Integers, Sequences, FiniteSets, TLC

VARIABLES
    now,        \* the server clock, datetime.now()
    att,        \* table attendance: a set of rows
    appr,       \* table attendance_approval: a sequence, the id is the index
    commits,    \* the number of requests that have committed so far
    inflight,   \* concurrent requests: what each holds between its query and its commit
    call        \* a function of the program applied to arguments: its name, the
                \* arguments, the result, and whether it has returned

vars == <<now, att, appr, commits, inflight, call>>

----------------------------------------------------------------------------
(* Null values: None/NULL of a numeric or datetime column, and of a text column. *)
NULL == -1
NULLS == "null"

(* Bounds of the model. *)
MaxInstant == 5         \* the clock takes the instants InstantAt(1..MaxInstant)
MaxApprovals == 2       \* rows of attendance_approval
MaxCommits == 3         \* requests that commit
MaxSites == 3           \* sites in the list of a proximity check
MaxDatePart == 31       \* largest first or second number of an overlay date

(* Program constants. *)
DaySeconds == 24 * 60 * 60
MaxSkewMinutes == 10            \* time_diff_minutes > 10
RadiusMetres == 2000            \* radius_km=2.0
GraceStart == 27900             \* time(7, 45)
GraceEnd == 29700               \* time(8, 15)
OutStart == 64800               \* time(18, 0)

Employees == {1}
Admins == {1}

Date(t) == t \div DaySeconds
TimeOfDay(t) == t % DaySeconds
Abs(x) == IF x < 0 THEN -x ELSE x

----------------------------------------------------------------------------
(* Inputs.  The clock takes three instants a day, 00:05, 08:00 and 18:10,  *)
(* and starts at 08:00 of day 0.  Photo timestamps sit at the edges of the  *)
(* 10 minute window around them: 07:49:59 and 07:50:00 (601 s and 600 s     *)
(* before 08:00), 18:20:00 and 18:20:01 (600 s and 601 s after 18:10) and   *)
(* 23:55:00 (600 s before 00:05 of the next day).                           *)
ClockOffsets == <<300, 28800, 65400>>
PhotoOffsets == {28199, 28200, 66000, 66001, 86100}
InstantAt(i) == (i \div 3) * DaySeconds + ClockOffsets[(i % 3) + 1]
Instants == {InstantAt(i) : i \in 1..MaxInstant}
Days == 0..Date(InstantAt(MaxInstant))
PhotoTimes == {d * DaySeconds + o : d \in Days, o \in PhotoOffsets}

(* Sites of the one branch, in query order, and the places photos are taken. *)
Sites == << [id |-> 1, latitude |-> 0, longitude |-> 0],
            [id |-> 2, latitude |-> 1500, longitude |-> 0] >>
PhotoPlaces == { <<100, 0>>, <<5000, 0>> }

----------------------------------------------------------------------------
(* The derived fields. *)

(* A status rule whose morning window ends before 08:15:00. *)
determine_attendance_status_open(in_time, out_time) ==
    IF in_time = NULL /\ out_time = NULL THEN "Absent"
    ELSE LET valid_in == in_time # NULL /\ GraceStart <= TimeOfDay(in_time)
                                        /\ TimeOfDay(in_time) < GraceEnd
             valid_out == out_time # NULL /\ TimeOfDay(out_time) >= OutStart
         IN IF valid_in /\ valid_out THEN "Full Day"
            ELSE IF in_time # NULL \/ out_time # NULL THEN "Half Day"
            ELSE "Absent"

(* determine_attendance_status: a datetime is always truthy, so "not in_time" *)
(* is "in_time is None".                                                      *)
determine_attendance_status(in_time, out_time) ==
    IF in_time = NULL /\ out_time = NULL THEN "Absent"
    ELSE LET valid_in == in_time # NULL /\ GraceStart <= TimeOfDay(in_time)
                                        /\ TimeOfDay(in_time) <= GraceEnd
             valid_out == out_time # NULL /\ TimeOfDay(out_time) >= OutStart
         IN IF valid_in /\ valid_out THEN "Full Day"
            ELSE IF in_time # NULL \/ out_time # NULL THEN "Half Day"
            ELSE "Absent"

(* f"{minutes:02d}" *)
TwoDigits(n) == IF 0 <= n /\ n < 10 THEN "0" \o ToString(n) ELSE ToString(n)

(* Working hours with the minutes not padded to two digits. *)
calculate_working_hours_unpadded(in_time, out_time) ==
    IF in_time = NULL \/ out_time = NULL THEN "0:00"
    ELSE ToString((out_time - in_time) \div 3600) \o ":"
         \o ToString(((out_time - in_time) % 3600) \div 60)

(* calculate_working_hours: // and % are Python's floor division and modulo, *)
(* which \div and % are too.                                                 *)
calculate_working_hours(in_time, out_time) ==
    IF in_time = NULL \/ out_time = NULL THEN "0:00"
    ELSE LET duration == out_time - in_time
             hours == duration \div 3600
             minutes == (duration % 3600) \div 60
         IN ToString(hours) \o ":" \o TwoDigits(minutes)

----------------------------------------------------------------------------
(* Proximity. *)

(* geodesic(...).kilometers of the geopy library, here the distance in metres *)
(* on the model's grid.                                                       *)
Distance(lat1, lon1, lat2, lon2) == Abs(lat1 - lat2) + Abs(lon1 - lon2)

(* is_within_site_range: the first site within the radius wins; when there is *)
(* none the site is None and the distance the smallest seen (NULL stands for  *)
(* float('inf') of an empty list).                                            *)
(* A proximity check that leaves out a site at exactly the radius. *)
RECURSIVE WithinFromInside(_, _, _, _, _)
WithinFromInside(emp_lat, emp_lon, sites, i, closest) ==
    IF i > Len(sites) THEN [within |-> FALSE, site |-> NULL, distance |-> closest]
    ELSE LET d == Distance(emp_lat, emp_lon, sites[i].latitude, sites[i].longitude)
             c == IF closest = NULL \/ d < closest THEN d ELSE closest
         IN IF d < RadiusMetres
            THEN [within |-> TRUE, site |-> sites[i].id, distance |-> d]
            ELSE WithinFromInside(emp_lat, emp_lon, sites, i + 1, c)

RECURSIVE WithinFrom(_, _, _, _, _)
WithinFrom(emp_lat, emp_lon, sites, i, closest) ==
    IF i > Len(sites) THEN [within |-> FALSE, site |-> NULL, distance |-> closest]
    ELSE LET d == Distance(emp_lat, emp_lon, sites[i].latitude, sites[i].longitude)
             c == IF closest = NULL \/ d < closest THEN d ELSE closest
         IN IF d <= RadiusMetres
            THEN [within |-> TRUE, site |-> sites[i].id, distance |-> d]
            ELSE WithinFrom(emp_lat, emp_lon, sites, i + 1, c)

is_within_site_range(emp_lat, emp_lon, sites) ==
    WithinFrom(emp_lat, emp_lon, sites, 1, NULL)

(* What the geocoder does: it answers.  (When the call fails the address is *)
(* the formatted coordinates; the requests of the model get an answer.)     *)
GeoOutcomes == {TRUE}

(* get_address_from_coordinates: the display name the geocoder answers, or *)
(* the formatted coordinates when the call fails.                          *)
get_address_from_coordinates(lat, lon, geoOk) ==
    IF geoOk THEN "Place " \o ToString(lat) \o "/" \o ToString(lon)
    ELSE "Location: " \o ToString(lat) \o ", " \o ToString(lon)

----------------------------------------------------------------------------
(* The tables. *)

(* Attendance(employee_id=e, date=d): every other column at its default.  A  *)
(* row's primary key is opaque to the program; the model names a row by its  *)
(* (employee_id, date) and a copy number, which tells apart rows of one      *)
(* (employee_id, date).  The photo columns are never set and are left out.   *)
Attendance(e, d, k) ==
    [employee_id |-> e, date |-> d, copy |-> k,
     in_time |-> NULL, in_latitude |-> NULL, in_longitude |-> NULL, in_address |-> NULLS,
     out_time |-> NULL, out_latitude |-> NULL, out_longitude |-> NULL, out_address |-> NULLS,
     site_id |-> NULL, status |-> "Absent", working_hours |-> NULLS,
     pending_approval |-> FALSE, pending_type |-> NULLS,
     pending_latitude |-> NULL, pending_longitude |-> NULL,
     pending_address |-> NULLS, pending_time |-> NULL]

(* AttendanceApproval(...) as process_attendance builds it. *)
AttendanceApproval(e, d, attendance_type, lat, lon, address, time) ==
    [employee_id |-> e, date |-> d, attendance_type |-> attendance_type,
     latitude |-> lat, longitude |-> lon, address |-> address, time |-> time,
     status |-> "Pending", remarks |-> NULLS,
     approved_at |-> NULL, approved_by |-> NULL]

SameRow(r, q) == r.employee_id = q.employee_id /\ r.date = q.date /\ r.copy = q.copy

(* Attendance.query.filter_by(employee_id=e, date=d) *)
RowsOf(A, e, d) == {r \in A : r.employee_id = e /\ r.date = d}

(* .first(): no row ({}), or one of the rows the filter matches ({r}). *)
First(A, e, d) == IF RowsOf(A, e, d) = {} THEN {{}} ELSE {{r} : r \in RowsOf(A, e, d)}

(* The copy number of a row added for (e, d). *)
FreshCopy(A, e, d) == CHOOSE k \in 1..(Cardinality(RowsOf(A, e, d)) + 1) :
                          \A r \in RowsOf(A, e, d) : r.copy # k

(* "attendance = ...first(); if not attendance: attendance = Attendance(...)" *)
FetchOrCreate(A, found, e, d) ==
    IF found = {} THEN Attendance(e, d, FreshCopy(A, e, d))
    ELSE CHOOSE r \in found : TRUE

(* The table with row r written back (or added). *)
Put(A, r) == {q \in A : ~SameRow(q, r)} \cup {r}

----------------------------------------------------------------------------
(* The Daily Sweep. *)

(* A sweep that marks every unfinished row Absent. *)
FinalizeAbsent(r) ==
    IF r.in_time # NULL /\ r.out_time # NULL THEN r
    ELSE [r EXCEPT !.status = "Absent", !.working_hours = "0:00"]

(* The if / elif / elif of both sweeps over a row dated before today. *)
Finalize(r) ==
    IF r.in_time # NULL /\ r.out_time = NULL
    THEN [r EXCEPT !.status = "Half Day", !.working_hours = "0:00"]
    ELSE IF r.out_time # NULL /\ r.in_time = NULL
    THEN [r EXCEPT !.status = "Half Day", !.working_hours = "0:00"]
    ELSE IF r.in_time = NULL /\ r.out_time = NULL
    THEN [r EXCEPT !.status = "Absent", !.working_hours = "0:00"]
    ELSE r

(* A sweep that took a row without out_time for an empty one. *)
DeletesUnfinished(r) == r.out_time = NULL

(* cleanup_incomplete_attendance, lines 194-198: today's row is deleted when *)
(* it has neither time.                                                      *)
DeletesEmpty(r) == r.in_time = NULL /\ r.out_time = NULL

(* cleanup_incomplete_attendance, lines 203-208: today's row is deleted when *)
(* its in_time is of an earlier day.                                         *)
DeletesStale(r, today) == r.in_time # NULL /\ Date(r.in_time) < today

(* cleanup_incomplete_attendance(employee_id), with today = now().date() and *)
(* today_attendance the row .first() gave ({} for None).                     *)
cleanup_incomplete_attendance(A, employee_id, today, today_attendance) ==
    LET old == {r \in A : r.employee_id = employee_id /\ r.date < today}
        deleted == {r \in today_attendance : DeletesEmpty(r) \/ DeletesStale(r, today)}
    IN ((A \ old) \cup {Finalize(r) : r \in old}) \ deleted

(* cleanup_all_incomplete_attendance(): the filter of lines 217-224 keeps the *)
(* rows before today that miss a time; lines 245-252 delete today's rows with *)
(* neither time.                                                              *)
cleanup_all_incomplete_attendance(A, today) ==
    LET incomplete == {r \in A : r.date < today /\
                          (   (r.in_time # NULL /\ r.out_time = NULL)
                           \/ (r.out_time # NULL /\ r.in_time = NULL)
                           \/ (r.in_time = NULL /\ r.out_time = NULL))}
        empty_today == {r \in A : r.date = today /\ r.in_time = NULL /\ r.out_time = NULL}
    IN ((A \ incomplete) \cup {Finalize(r) : r \in incomplete}) \ empty_today

----------------------------------------------------------------------------
(* Evidence. *)

NoGps == <<NULL, NULL>>

(* An uploaded photo, as the program can tell photos apart: the file that    *)
(* came with the request, whether verify_face_match accepts it, what the     *)
(* EXIF block holds, and what the OCR passes read in the overlay (ocr_dt is  *)
(* the datetime extract_datetime_from_text_overlay builds, NULL when it      *)
(* cannot).                                                                  *)
Photo(file, face, exif_gps, exif_dt, ocr, ocr_gps, ocr_dt) ==
    [file |-> file, face |-> face, exif_gps |-> exif_gps, exif_dt |-> exif_dt,
     ocr |-> ocr, ocr_gps |-> ocr_gps, ocr_dt |-> ocr_dt]

(* The timestamps of the photos uploaded at clock t: those within 601 s of t *)
(* or of the next instant, and the oldest one, a photo of another day.       *)
PhotoTimesAt(t) ==
    {p \in PhotoTimes : \E u \in {t} \cup {v \in Instants : v > t /\ v - t < DaySeconds} :
                            Abs(p - u) <= MaxSkewMinutes * 60 + 1}
    \cup {CHOOSE p \in PhotoTimes : \A q \in PhotoTimes : p <= q}

(* The photos uploaded at clock t. *)
Photos(t) ==
    {Photo("none", FALSE, NoGps, NULL, "read", NoGps, NULL),
     Photo("badext", FALSE, NoGps, NULL, "read", NoGps, NULL),
     Photo("ok", FALSE, NoGps, NULL, "read", NoGps, NULL),
     Photo("ok", TRUE, NoGps, NULL, "unreadable", NoGps, NULL),
     Photo("ok", TRUE, NoGps, NULL, "read", NoGps, NULL)}
    \cup {Photo("ok", TRUE, g, p, "read", NoGps, NULL) :
              g \in PhotoPlaces, p \in PhotoTimesAt(t) \cup {NULL}}
    \cup {Photo("ok", TRUE, NoGps, NULL, "read", g, p) :
              g \in PhotoPlaces, p \in PhotoTimesAt(t) \cup {NULL}}

(* extract_gps_and_datetime(photo_path); today is datetime.now().date() of   *)
(* line 278.  extract_gps_from_text_overlay returns two values, not five,    *)
(* when the image cannot be read, and the unpacking of line 270 then raises. *)
extract_gps_and_datetime(photo, today) ==
    IF photo.exif_gps # NoGps
    THEN [raised |-> FALSE, lat |-> photo.exif_gps[1], lon |-> photo.exif_gps[2],
          dt |-> photo.exif_dt, method |-> "EXIF"]
    ELSE IF photo.ocr = "unreadable"
    THEN [raised |-> TRUE, lat |-> NULL, lon |-> NULL, dt |-> NULL, method |-> NULLS]
    ELSE IF photo.ocr_gps # NoGps
    THEN IF photo.ocr_dt = NULL
         THEN [raised |-> FALSE, lat |-> NULL, lon |-> NULL, dt |-> NULL,
               method |-> "TIME_PARSE_FAILED"]
         ELSE IF Date(photo.ocr_dt) = today
         THEN [raised |-> FALSE, lat |-> photo.ocr_gps[1], lon |-> photo.ocr_gps[2],
               dt |-> photo.ocr_dt, method |-> "OCR+Injected"]
         ELSE [raised |-> FALSE, lat |-> NULL, lon |-> NULL, dt |-> NULL,
               method |-> "DATE_MISMATCH"]
    ELSE [raised |-> FALSE, lat |-> NULL, lon |-> NULL, dt |-> NULL, method |-> NULLS]

(* Whether extract_gps_and_datetime reads the clock (line 278). *)
ReadsClock(photo) ==
    photo.exif_gps = NoGps /\ photo.ocr = "read" /\ photo.ocr_gps # NoGps
    /\ photo.ocr_dt # NULL

(* Admin has these columns and no is_active, so                              *)
(* Admin.query.filter_by(is_active=True) of line 282 raises, and the except  *)
(* of line 324 returns False.                                                *)
AdminColumns == {"id", "admin_id", "name", "email", "keyword", "password_hash",
                 "password_changed", "reset_token", "reset_token_expires"}

(* send_admin_approval_email: mailOk says that an active admin exists and *)
(* that mail.send did not raise.                                          *)
send_admin_approval_email(mailOk) ==
    IF "is_active" \notin AdminColumns THEN FALSE ELSE mailOk

(* A check that measures how old the photo is, and lets a photo of the *)
(* future pass.                                                       *)
SkewExceededSigned(photo_time, upload_time) ==
    upload_time - photo_time > MaxSkewMinutes * 60

(* A check that refused a difference of exactly ten minutes. *)
SkewExceededAtTen(photo_time, upload_time) ==
    Abs(photo_time - upload_time) >= MaxSkewMinutes * 60

(* time_diff_minutes > 10, lines 576-581 *)
SkewExceeded(photo_time, upload_time) ==
    Abs(photo_time - upload_time) > MaxSkewMinutes * 60

----------------------------------------------------------------------------
(* The writes of process_attendance and of the admin decisions. *)

(* A write of the slot that leaves status and working_hours as they were. *)
MarkSlotOnly(r, attendance_type, t, lat, lon, address, site) ==
    IF attendance_type = "in"
    THEN [r EXCEPT !.in_time = t, !.in_latitude = lat, !.in_longitude = lon,
                   !.in_address = address, !.site_id = site]
    ELSE [r EXCEPT !.out_time = t, !.out_latitude = lat, !.out_longitude = lon,
                   !.out_address = address]

(* Lines 613-630: the slot of the direction, then the derived fields. *)
MarkSlot(r, attendance_type, t, lat, lon, address, site) ==
    LET w == IF attendance_type = "in"
             THEN [r EXCEPT !.in_time = t, !.in_latitude = lat, !.in_longitude = lon,
                            !.in_address = address, !.site_id = site]
             ELSE [r EXCEPT !.out_time = t, !.out_latitude = lat, !.out_longitude = lon,
                            !.out_address = address]
    IN [w EXCEPT !.status = determine_attendance_status(w.in_time, w.out_time),
                 !.working_hours = calculate_working_hours(w.in_time, w.out_time)]

(* Lines 661-667. *)
SetPending(r, attendance_type, t, lat, lon, address) ==
    [r EXCEPT !.pending_approval = TRUE, !.pending_type = attendance_type,
              !.pending_latitude = lat, !.pending_longitude = lon,
              !.pending_address = address, !.pending_time = t]

(* A decision that reset the flag and left the pending snapshot behind. *)
ClearPendingFlag(r) == [r EXCEPT !.pending_approval = FALSE]

(* admin_routes.py lines 537-543 and 569-575. *)
ClearPending(r) ==
    [r EXCEPT !.pending_approval = FALSE, !.pending_type = NULLS,
              !.pending_latitude = NULL, !.pending_longitude = NULL,
              !.pending_address = NULLS, !.pending_time = NULL]

(* An approval that copied the snapshot and left status and working_hours *)
(* as they were.                                                          *)
ApproveRowNoRecompute(r, a) ==
    ClearPending(IF a.attendance_type = "in"
                 THEN [r EXCEPT !.in_time = a.time, !.in_latitude = a.latitude,
                                !.in_longitude = a.longitude, !.in_address = a.address]
                 ELSE [r EXCEPT !.out_time = a.time, !.out_latitude = a.latitude,
                                !.out_longitude = a.longitude, !.out_address = a.address])

(* approve_attendance, lines 523-548, on the row fetched or created. *)
ApproveRow(r, a) ==
    LET w == IF a.attendance_type = "in"
             THEN [r EXCEPT !.in_time = a.time, !.in_latitude = a.latitude,
                            !.in_longitude = a.longitude, !.in_address = a.address]
             ELSE [r EXCEPT !.out_time = a.time, !.out_latitude = a.latitude,
                            !.out_longitude = a.longitude, !.out_address = a.address]
        c == ClearPending(w)
    IN [c EXCEPT !.status = determine_attendance_status(c.in_time, c.out_time),
                 !.working_hours = calculate_working_hours(c.in_time, c.out_time)]

(* approve_attendance, lines 511-514, and reject_attendance, lines 561-564. *)
Decide(a, status, admin, remarks, t) ==
    [a EXCEPT !.status = status, !.approved_at = t, !.approved_by = admin,
              !.remarks = remarks]

----------------------------------------------------------------------------
(* The clock.  A request reads the clock several times; between two reads of *)
(* one request the clock may pass on to the next instant, once.              *)

Later(t) == {u \in Instants : u > t}
Succ(t) == CHOOSE u \in Later(t) : \A v \in Later(t) : u <= v

(* The values a read may give: start is the clock when the request came in, *)
(* prev the request's latest read, first says that this read is its first.  *)
Reads(prev, start, first) ==
    IF first THEN {start}
    ELSE {prev} \cup (IF prev = start /\ Later(start) # {} THEN {Succ(start)} ELSE {})

----------------------------------------------------------------------------
(* Requests.  A handler is the set of its outcomes on the tables A (rows of  *)
(* attendance) and P (rows of attendance_approval): what it returns, the     *)
(* tables it leaves, the clock at its last read, whether it committed.       *)

Outcome(accepted, msg, A, P, t, committed) ==
    [accepted |-> accepted, msg |-> msg, att |-> A, appr |-> P, now |-> t,
     committed |-> committed]

(* A refusal that comes after the sweep has run. *)
RefuseAfterSweep(msg, A, P, t) ==
    Outcome(FALSE, msg, cleanup_all_incomplete_attendance(A, Date(t)), P, t, FALSE)

(* A return of process_attendance before anything is written. *)
Refuse(msg, A, P, t) == Outcome(FALSE, msg, A, P, t, FALSE)

(* process_attendance, lines 610-682, on the row fetched or created after the *)
(* sweep left the table swept.                                                *)
Record(swept, P, attendance, e, attendance_type, lat, lon, dt, address, range, ts) ==
    IF range.within
    THEN {Outcome(TRUE, "marked",
                  Put(swept, MarkSlot(attendance, attendance_type, dt, lat, lon,
                                      address, range.site)),
                  P, ts, TRUE)}
    ELSE IF Len(P) >= MaxApprovals THEN {}
    ELSE LET A2 == Put(swept, SetPending(attendance, attendance_type, dt, lat, lon, address))
             P2 == Append(P, AttendanceApproval(e, attendance.date, attendance_type,
                                                lat, lon, address, dt))
         IN { IF send_admin_approval_email(mailOk)
              THEN Outcome(TRUE, "pending_sent", A2, P2, ts, TRUE)
              ELSE Outcome(FALSE, "notify_failed", A2, P2, ts, TRUE)
              : mailOk \in BOOLEAN }

(* A commit on the row of the server's day, not of the photo's. *)
CommitOnServerDate(A, P, e, attendance_type, lat, lon, dt, tu, start) ==
    UNION { UNION { UNION {
        LET address == get_address_from_coordinates(lat, lon, geoOk)
            range == is_within_site_range(lat, lon, Sites)
            swept == cleanup_incomplete_attendance(A, e, Date(ts), today_attendance)
        IN UNION { Record(swept, P, FetchOrCreate(swept, found, e, Date(ts)), e,
                          attendance_type, lat, lon, dt, address, range, ts)
                   : found \in First(swept, e, Date(ts)) }
        : today_attendance \in First(A, e, Date(ts)) }
        : ts \in Reads(tu, start, FALSE) }
        : geoOk \in GeoOutcomes }

(* process_attendance, lines 557-605: every check has passed; the address, *)
(* the proximity, the sweep and the fetch-or-create of the photo's day.    *)
Commit(A, P, e, attendance_type, lat, lon, dt, tu, start) ==
    UNION { UNION { UNION {
        LET address == get_address_from_coordinates(lat, lon, geoOk)
            range == is_within_site_range(lat, lon, Sites)
            swept == cleanup_incomplete_attendance(A, e, Date(ts), today_attendance)
        IN UNION { Record(swept, P, FetchOrCreate(swept, found, e, Date(dt)), e,
                          attendance_type, lat, lon, dt, address, range, ts)
                   : found \in First(swept, e, Date(dt)) }
        : today_attendance \in First(A, e, Date(ts)) }
        : ts \in Reads(tu, start, FALSE) }
        : geoOk \in GeoOutcomes }

(* process_attendance, lines 566-583: the date check and the time-skew check. *)
Validate(A, P, e, attendance_type, ev, te, start, first) ==
    UNION {
        IF Date(ev.dt) # Date(td) THEN {Refuse("date_mismatch", A, P, td)}
        ELSE UNION {
            IF SkewExceeded(ev.dt, tu) THEN {Refuse("time_skew", A, P, tu)}
            ELSE Commit(A, P, e, attendance_type, ev.lat, ev.lon, ev.dt, tu, start)
            : tu \in Reads(td, start, FALSE) }
        : td \in Reads(te, start, first) }

(* process_attendance(emp, photo_file, attendance_type); first says that the *)
(* route has not read the clock before the call.                             *)
process_attendance(A, P, e, attendance_type, photo, start, first) ==
    IF photo.file = "none" THEN {Refuse("no_photo", A, P, start)}
    ELSE IF photo.file = "badext" THEN {Refuse("bad_type", A, P, start)}
    ELSE IF ~photo.face THEN {Refuse("face_failed", A, P, start)}
    ELSE UNION {
        LET ev == extract_gps_and_datetime(photo, Date(te))
        IN IF ev.raised THEN {Outcome(FALSE, "raised", A, P, te, FALSE)}
           ELSE IF ev.lat = NULL \/ ev.lon = NULL THEN {Refuse("no_gps", A, P, te)}
           ELSE IF ev.dt = NULL THEN {Refuse("no_datetime", A, P, te)}
           ELSE Validate(A, P, e, attendance_type, ev, te, start,
                         first /\ ~ReadsClock(photo))
        : te \in (IF ReadsClock(photo) THEN Reads(start, start, first) ELSE {start}) }

(* attendance_in *)
attendance_in(A, P, t, e, photo) == process_attendance(A, P, e, "in", photo, t, TRUE)

(* attendance_out: the guard of lines 835-840, then process_attendance. *)
attendance_out(A, P, t, e, photo) ==
    UNION {
        IF found = {} \/ (\E r \in found : r.in_time = NULL)
        THEN {Refuse("need_in", A, P, t)}
        ELSE process_attendance(A, P, e, "out", photo, t, FALSE)
        : found \in First(A, e, Date(t)) }

(* approve_attendance(approval_id); form_remarks is NULLS when the form has *)
(* no remarks.                                                              *)
approve_attendance(A, P, t, approval_id, admin, form_remarks) ==
    LET approval == P[approval_id]
        remarks == IF form_remarks = NULLS THEN "" ELSE form_remarks
        P2 == [P EXCEPT ![approval_id] = Decide(approval, "Approved", admin, remarks, t)]
    IN { Outcome(TRUE, "approved",
                 Put(A, ApproveRow(FetchOrCreate(A, found, approval.employee_id,
                                                 approval.date), approval)),
                 P2, t, TRUE)
         : found \in First(A, approval.employee_id, approval.date) }

(* A rejection that fetched or created the row, as the approval does. *)
reject_attendance_creating(A, P, t, approval_id, admin, form_remarks) ==
    LET approval == P[approval_id]
        remarks == IF form_remarks = NULLS THEN "Rejected by admin" ELSE form_remarks
        P2 == [P EXCEPT ![approval_id] = Decide(approval, "Rejected", admin, remarks, t)]
    IN { Outcome(TRUE, "rejected",
                 Put(A, ClearPending(FetchOrCreate(A, found, approval.employee_id,
                                                   approval.date))),
                 P2, t, TRUE)
         : found \in First(A, approval.employee_id, approval.date) }

(* reject_attendance(approval_id) *)
reject_attendance(A, P, t, approval_id, admin, form_remarks) ==
    LET approval == P[approval_id]
        remarks == IF form_remarks = NULLS THEN "Rejected by admin" ELSE form_remarks
        P2 == [P EXCEPT ![approval_id] = Decide(approval, "Rejected", admin, remarks, t)]
    IN { Outcome(TRUE, "rejected", (A \ found) \cup {ClearPending(r) : r \in found},
                 P2, t, TRUE)
         : found \in First(A, approval.employee_id, approval.date) }

(* employee_dashboard: the per-employee sweep, then the page. *)
employee_dashboard(A, P, t, e) ==
    { Outcome(TRUE, "dashboard",
              cleanup_incomplete_attendance(A, e, Date(t), today_attendance), P, t, TRUE)
      : today_attendance \in First(A, e, Date(t)) }

(* The admin dashboard and the /cleanup-attendance route: the global sweep. *)
admin_dashboard(A, P, t) ==
    { Outcome(TRUE, "admin", cleanup_all_incomplete_attendance(A, Date(t)), P, t, TRUE) }

FormRemarks == {NULLS, "note"}

----------------------------------------------------------------------------
(* The state machine. *)

(* The tables and the clock after a request with outcome o. *)
Apply(o) == /\ o.committed => commits < MaxCommits
            /\ att' = o.att
            /\ appr' = o.appr
            /\ now' = o.now
            /\ commits' = IF o.committed THEN commits + 1 ELSE commits
            /\ UNCHANGED <<inflight, call>>

Tick == /\ Later(now) # {}
        /\ now' = Succ(now)
        /\ UNCHANGED <<att, appr, commits, inflight, call>>

AttendanceIn == /\ commits < MaxCommits
                /\ \E e \in Employees, photo \in Photos(now) :
                      \E o \in attendance_in(att, appr, now, e, photo) : Apply(o)

AttendanceOut == /\ commits < MaxCommits
                 /\ \E e \in Employees, photo \in Photos(now) :
                       \E o \in attendance_out(att, appr, now, e, photo) : Apply(o)

ApproveAttendance == \E id \in 1..Len(appr), admin \in Admins, remarks \in FormRemarks :
                         \E o \in approve_attendance(att, appr, now, id, admin, remarks) :
                             Apply(o)

RejectAttendance == \E id \in 1..Len(appr), admin \in Admins, remarks \in FormRemarks :
                        \E o \in reject_attendance(att, appr, now, id, admin, remarks) :
                            Apply(o)

EmployeeDashboard == \E e \in Employees :
                         \E o \in employee_dashboard(att, appr, now, e) : Apply(o)

AdminDashboard == \E o \in admin_dashboard(att, appr, now) : Apply(o)

(* No function applied. *)
NoCall == [fn |-> "none", args |-> <<>>, result |-> NULL, done |-> FALSE]

(* A request slot with no request in it. *)
Requests == {1, 2}
Idle == [pc |-> "idle", kind |-> NULLS, employee_id |-> NULL, date |-> NULL,
         attendance_type |-> NULLS, latitude |-> NULL, longitude |-> NULL,
         time |-> NULL, address |-> NULLS, site |-> NULL, approval_id |-> NULL,
         admin |-> NULL, at |-> NULL, found |-> {}]

Init == /\ now = InstantAt(1)
        /\ att = {}
        /\ appr = <<>>
        /\ commits = 0
        /\ inflight = [p \in Requests |-> Idle]
        /\ call = NoCall

Next == \/ Tick
        \/ AttendanceIn
        \/ AttendanceOut
        \/ ApproveAttendance
        \/ RejectAttendance
        \/ EmployeeDashboard
        \/ AdminDashboard

Spec == Init /\ [][Next]_vars

----------------------------------------------------------------------------
(* What the properties below speak of. *)

Directions == {"in", "out"}

(* The outcomes of the route of a direction in the current state. *)
Route(e, attendance_type, photo) ==
    IF attendance_type = "in" THEN attendance_in(att, appr, now, e, photo)
    ELSE attendance_out(att, appr, now, e, photo)

(* The coordinates and the timestamp a photo carries, in its EXIF block or *)
(* else in its overlay; a photo is evidenced when the upload is a photo    *)
(* whose face verifies and which carries both.                             *)
PhotoGps(photo) == IF photo.exif_gps # NoGps THEN photo.exif_gps
                   ELSE IF photo.ocr = "read" THEN photo.ocr_gps ELSE NoGps
PhotoDt(photo) == IF photo.exif_gps # NoGps THEN photo.exif_dt
                  ELSE IF photo.ocr = "read" THEN photo.ocr_dt ELSE NULL
Evidenced(photo) == /\ photo.file = "ok" /\ photo.face
                    /\ PhotoGps(photo) # NoGps /\ PhotoDt(photo) # NULL
InRange(photo) == is_within_site_range(PhotoGps(photo)[1], PhotoGps(photo)[2], Sites).within

(* The row of A that is row r, if it is still there. *)
Kept(A, r) == {q \in A : SameRow(q, r)}

PendingCleared(r) ==
    /\ r.pending_approval = FALSE /\ r.pending_type = NULLS
    /\ r.pending_latitude = NULL /\ r.pending_longitude = NULL
    /\ r.pending_address = NULLS /\ r.pending_time = NULL

PendingPopulated(r) ==
    /\ r.pending_approval = TRUE /\ r.pending_type \in Directions
    /\ r.pending_latitude # NULL /\ r.pending_longitude # NULL
    /\ r.pending_address # NULLS /\ r.pending_time # NULL

(* The slot of a direction: time, latitude, longitude, address. *)
Slot(r, attendance_type) ==
    IF attendance_type = "in"
    THEN <<r.in_time, r.in_latitude, r.in_longitude, r.in_address>>
    ELSE <<r.out_time, r.out_latitude, r.out_longitude, r.out_address>>

Snapshot(a) == <<a.time, a.latitude, a.longitude, a.address>>

(* The IN/OUT slots and the derived fields of a row. *)
Facts(r) == <<Slot(r, "in"), Slot(r, "out"), r.status, r.working_hours>>

Derived(r) ==
    /\ r.status = determine_attendance_status(r.in_time, r.out_time)
    /\ r.working_hours = calculate_working_hours(r.in_time, r.out_time)

----------------------------------------------------------------------------
(* Concurrent requests.  The server runs requests in parallel, each in its   *)
(* own database session.  A request that fetches or creates a row reads the  *)
(* table in its query (employee_routes.py line 601, admin_routes.py line     *)
(* 517) and writes in its commit (lines 632 and 669, and 550); other         *)
(* requests run between the two.  The table has no unique constraint on      *)
(* (employee_id, date), so the INSERT of a commit never fails.               *)

(* The UPDATE of a commit: the columns the session changed on the row it *)
(* loaded, written over the row as the table has it now.                 *)
Update(cur, loaded, final) ==
    [f \in DOMAIN cur |-> IF final[f] # loaded[f] THEN final[f] ELSE cur[f]]

InFlight == {p \in Requests : inflight[p].pc # "idle"}
FilingInFlight == {p \in Requests : inflight[p].kind = "pending"}

(* process_attendance up to its query: a submission that passes every check, *)
(* the sweep and its commit, then the row .first() gives.                    *)
BeginSubmit(p) ==
    /\ inflight[p].pc = "idle"
    /\ commits + Cardinality(InFlight) < MaxCommits
    /\ \E e \in Employees, d \in Directions, photo \in Photos(now) :
         /\ \E o \in Route(e, d, photo) : o.committed /\ o.now = now
         /\ LET ev == extract_gps_and_datetime(photo, Date(now))
                range == is_within_site_range(ev.lat, ev.lon, Sites)
            IN /\ range.within \/ Len(appr) + Cardinality(FilingInFlight) < MaxApprovals
               /\ \E today_attendance \in First(att, e, Date(now)), geoOk \in GeoOutcomes :
                    LET swept == cleanup_incomplete_attendance(att, e, Date(now),
                                                               today_attendance)
                    IN \E found \in First(swept, e, Date(ev.dt)) :
                         /\ att' = swept
                         /\ inflight' = [inflight EXCEPT ![p] =
                               [Idle EXCEPT !.pc = "fetched",
                                   !.kind = IF range.within THEN "mark" ELSE "pending",
                                   !.employee_id = e, !.date = Date(ev.dt),
                                   !.attendance_type = d,
                                   !.latitude = ev.lat, !.longitude = ev.lon,
                                   !.time = ev.dt,
                                   !.address = get_address_from_coordinates(ev.lat, ev.lon,
                                                                            geoOk),
                                   !.site = range.site, !.found = found]]
    /\ UNCHANGED <<now, appr, commits, call>>

(* approve_attendance up to its query. *)
BeginApprove(p) ==
    /\ inflight[p].pc = "idle"
    /\ commits + Cardinality(InFlight) < MaxCommits
    /\ \E id \in 1..Len(appr), admin \in Admins :
         \E found \in First(att, appr[id].employee_id, appr[id].date) :
            inflight' = [inflight EXCEPT ![p] =
                [Idle EXCEPT !.pc = "fetched", !.kind = "approve",
                    !.employee_id = appr[id].employee_id, !.date = appr[id].date,
                    !.attendance_type = appr[id].attendance_type,
                    !.approval_id = id, !.admin = admin, !.at = now, !.found = found]]
    /\ UNCHANGED <<now, att, appr, commits, call>>

(* db.session.commit() of a request: the INSERT of the row it created or the *)
(* UPDATE of the row it loaded, and the approval row it added or decided.  An *)
(* UPDATE of a row that is gone raises and the request writes nothing.       *)
Flush(p) ==
    LET q == inflight[p]
        loaded == IF q.found = {}
                  THEN Attendance(q.employee_id, q.date,
                                  FreshCopy(att, q.employee_id, q.date))
                  ELSE CHOOSE r \in q.found : TRUE
        final == IF q.kind = "mark"
                 THEN MarkSlot(loaded, q.attendance_type, q.time, q.latitude,
                               q.longitude, q.address, q.site)
                 ELSE IF q.kind = "pending"
                 THEN SetPending(loaded, q.attendance_type, q.time, q.latitude,
                                 q.longitude, q.address)
                 ELSE ApproveRow(loaded, appr[q.approval_id])
        gone == q.found # {} /\ Kept(att, loaded) = {}
    IN /\ q.pc = "fetched"
       /\ att' = IF gone THEN att
                 ELSE IF q.found = {} THEN att \cup {final}
                 ELSE Put(att, Update(CHOOSE r \in Kept(att, loaded) : TRUE, loaded, final))
       /\ appr' = IF gone \/ q.kind = "mark" THEN appr
                  ELSE IF q.kind = "pending"
                  THEN Append(appr, AttendanceApproval(q.employee_id, q.date,
                                       q.attendance_type, q.latitude, q.longitude,
                                       q.address, q.time))
                  ELSE [appr EXCEPT ![q.approval_id] =
                           Decide(appr[q.approval_id], "Approved", q.admin, "", q.at)]
       /\ commits' = commits + 1
       /\ inflight' = [inflight EXCEPT ![p] = Idle]
       /\ UNCHANGED <<now, call>>

NextConc == \/ Tick
            \/ \E p \in Requests : BeginSubmit(p)
            \/ \E p \in Requests : BeginApprove(p)
            \/ \E p \in Requests : Flush(p)

SpecConc == Init /\ [][NextConc]_vars

----------------------------------------------------------------------------
(* The functions of the program on their own: the arguments are drawn at the *)
(* start, a step applies the function and keeps what it returns.             *)

(* The call of fn on args that has not returned yet. *)
Call(fn, args) == [fn |-> fn, args |-> args, result |-> NULL, done |-> FALSE]

(* The call after it returned result. *)
Return(result) ==
    /\ ~call.done
    /\ call' = [call EXCEPT !.result = result, !.done = TRUE]
    /\ UNCHANGED <<now, att, appr, commits, inflight>>

(* Timestamps for the derived fields: around the edges of the 07:45-08:15  *)
(* window and of 18:00, and 08:00, 08:30, 09:00, 17:45 and 18:30, on two   *)
(* days; NULL is None.                                                     *)
StatusOffsets == {27899, 27900, 28800, 29700, 29701, 30600, 32400,
                  63900, 64799, 64800, 66600}
StatusTimes == {d * DaySeconds + o : d \in {0, 1}, o \in StatusOffsets} \cup {NULL}

DetermineStatus ==
    /\ call.fn = "determine_attendance_status"
    /\ Return(determine_attendance_status(call.args[1], call.args[2]))

WorkingHours ==
    /\ call.fn = "calculate_working_hours"
    /\ Return(calculate_working_hours(call.args[1], call.args[2]))

(* Stores for the sweeps, swept on day SweepToday: at most two rows, of two *)
(* employees, dated the day before or today, with in_time of either day or *)
(* none, out_time of the row's day or none, with or without a pending      *)
(* request; status and working_hours are what the writes leave.            *)
SweepToday == 1
SweepEmployees == {1, 2}
SweepRow(e, d, i, o, p) ==
    LET r == [Attendance(e, d, 1) EXCEPT !.in_time = i, !.out_time = o]
        w == IF i = NULL /\ o = NULL THEN r
             ELSE [r EXCEPT !.status = determine_attendance_status(i, o),
                            !.working_hours = calculate_working_hours(i, o)]
    IN IF p THEN SetPending(w, "out", d * DaySeconds + 66000, 5000, 0, "Place 5000/0")
       ELSE w
SweepRows ==
    {SweepRow(e, d, i, o, p) :
        e \in SweepEmployees, d \in {SweepToday - 1, SweepToday},
        i \in {NULL, (SweepToday - 1) * DaySeconds + 28200, SweepToday * DaySeconds + 28200},
        o \in {NULL, SweepToday * DaySeconds + 66000}, p \in BOOLEAN}
SweepStores ==
    {{}} \cup {{r} : r \in SweepRows}
    \cup {{x[1], x[2]} : x \in {y \in SweepRows \X SweepRows : ~SameRow(y[1], y[2])}}

SweepEmployee ==
    /\ call.fn = "cleanup_incomplete_attendance"
    /\ \E today_attendance \in First(call.args[1], call.args[2], SweepToday) :
          Return(cleanup_incomplete_attendance(call.args[1], call.args[2], SweepToday,
                                               today_attendance))

SweepAll ==
    /\ call.fn = "cleanup_all_incomplete_attendance"
    /\ Return(cleanup_all_incomplete_attendance(call.args[1], SweepToday))

(* The date extract_gps_from_text_overlay keeps of a match g1/g2/g3 of a     *)
(* date pattern, as <<day, month, year>> (the code formats it dd/mm/yyyy);   *)
(* digits is len(g3).  A date that keeps its day first whatever it reads     *)
(* comes first.                                                              *)
found_date_day_first(g1, g2, g3, digits) ==
    IF digits = 4 THEN <<g1, g2, g3>> ELSE <<g3, g2, g1>>

found_date(g1, g2, g3, digits) ==
    IF digits = 4
    THEN LET a == g1
             b == g2
             y == g3
         IN IF a > 12 /\ 1 <= b /\ b <= 12 THEN <<a, b, y>>
            ELSE IF b > 12 /\ 1 <= a /\ a <= 12 THEN <<b, a, y>>
            ELSE <<a, b, y>>
    ELSE <<g3, g2, g1>>

(* The dates of the overlay: a/b/2025 with a and b from 0 to MaxDatePart,    *)
(* and the same numbers followed by a year of two digits.                    *)
DateParts == 0..MaxDatePart
FoundDate ==
    /\ call.fn = "found_date"
    /\ Return(found_date(call.args[1], call.args[2], call.args[3], call.args[4]))

(* extract_gps_from_text_overlay(photo_path).  The image is what the OCR     *)
(* passes make of it: whether cv2.imread reads it, whether pytesseract      *)
(* raises, and, for each of the four variants in the order of the dict of   *)
(* lines 78-83, what the patterns match in its text: a coordinate pair      *)
(* (NoGps when no pattern matches), the numbers of a date (<<>> when none), *)
(* a time and an address (NULL when none).                                  *)
Variants == <<"cropped", "full", "cropped_th", "full_th">>
NoDate == <<>>
Text(gps, date, time, address) ==
    [gps |-> gps, date |-> date, time |-> time, address |-> address]
Image(readable, ocr, texts) == [readable |-> readable, ocr |-> ocr, texts |-> texts]

(* Lines 131-134: a pair is kept when it is in range. *)
RangeValid(gps) ==
    /\ gps # NoGps
    /\ -90 <= gps[1] /\ gps[1] <= 90 /\ -180 <= gps[2] /\ gps[2] <= 180

(* Lines 116-185: every variant is searched for every field, and a match    *)
(* is stored in found, over what an earlier variant has put there.          *)
RECURSIVE SearchFrom(_, _, _)
SearchFrom(texts, i, found) ==
    IF i > Len(texts) THEN found
    ELSE LET text == texts[i]
             gps == IF RangeValid(text.gps) THEN text.gps ELSE <<found.lat, found.lon>>
         IN SearchFrom(texts, i + 1,
                [lat |-> gps[1], lon |-> gps[2],
                 date |-> IF text.date # NoDate
                          THEN found_date(text.date[1], text.date[2], text.date[3],
                                          text.date[4])
                          ELSE found.date,
                 time |-> IF text.time # NULL THEN text.time ELSE found.time,
                 address |-> IF text.address # NULL THEN text.address
                             ELSE found.address])

(* values is the number of values returned: the returns of lines 60 and 193 *)
(* give two, those of lines 188 and 190 five.                               *)
extract_gps_from_text_overlay(image) ==
    IF ~image.readable \/ image.ocr = "raises"
    THEN [values |-> 2, lat |-> NULL, lon |-> NULL, date |-> NoDate, time |-> NULL,
          address |-> NULL]
    ELSE LET found == SearchFrom(image.texts, 1,
                          [lat |-> NULL, lon |-> NULL, date |-> NoDate, time |-> NULL,
                           address |-> NULL])
         IN [values |-> 5, lat |-> found.lat, lon |-> found.lon, date |-> found.date,
             time |-> found.time, address |-> found.address]

(* What variant i can read: no pair, a pair out of range or the pair        *)
(* <<i, i>>; and no text, the date i/03/2025, the time i o'clock, the       *)
(* address i, or the three together.                                        *)
TextsOf(i) ==
    {Text(gps, t[1], t[2], t[3]) :
        gps \in {NoGps, <<90 + i, i>>, <<i, i>>},
        t \in {<<NoDate, NULL, NULL>>, <<<<i, 3, 2025, 4>>, NULL, NULL>>,
               <<NoDate, i, NULL>>, <<NoDate, NULL, i>>, <<<<i, 3, 2025, 4>>, i, i>>}}
Images ==
    {Image(FALSE, "ok", <<>>), Image(TRUE, "raises", <<>>)}
    \cup {Image(TRUE, "ok", <<a, b, c, d>>) :
              a \in TextsOf(1), b \in TextsOf(2), c \in TextsOf(3), d \in TextsOf(4)}

Overlay ==
    /\ call.fn = "extract_gps_from_text_overlay"
    /\ Return(extract_gps_from_text_overlay(call.args[1]))

(* inject_gps_into_exif(photo_path, lat, lon): the file is saved with an     *)
(* EXIF block that holds the coordinates and nothing else; writeOk says that *)
(* piexif and Image.save did not raise (the except of line 219 swallows it). *)
inject_gps_into_exif(photo, lat, lon, writeOk) ==
    IF writeOk THEN [photo EXCEPT !.exif_gps = <<lat, lon>>, !.exif_dt = NULL]
    ELSE photo

(* A resolver that writes the coordinates as soon as the overlay gave them. *)
ImageAfterEager(photo, today, writeOk) ==
    IF photo.exif_gps = NoGps /\ photo.ocr = "read" /\ photo.ocr_gps # NoGps
    THEN inject_gps_into_exif(photo, photo.ocr_gps[1], photo.ocr_gps[2], writeOk)
    ELSE photo

(* The image file after extract_gps_and_datetime(photo_path): line 282 is   *)
(* the only write to it, in the branch that returns "OCR+Injected".         *)
ImageAfter(photo, today, writeOk) ==
    LET ev == extract_gps_and_datetime(photo, today)
    IN IF ev.method = "OCR+Injected"
       THEN inject_gps_into_exif(photo, ev.lat, ev.lon, writeOk)
       ELSE photo

(* extract_gps_and_datetime on the photos a request can hand to it (the      *)
(* file was saved and the face verified), on the day of the clock; the       *)
(* result is what it returns, with the image file it leaves.                 *)
Resolve ==
    /\ call.fn = "extract_gps_and_datetime"
    /\ Return(extract_gps_and_datetime(call.args[1], Date(now))
              @@ [image |-> ImageAfter(call.args[1], Date(now), call.args[2])])

(* The routes attendance_in and attendance_out on their own, the clock at   *)
(* 18:10 of day 0 and free to pass on to 00:05 of day 1 during the request: *)
(* on the empty tables, on the tables an in-range IN of the morning leaves, *)
(* and on those an out-of-range IN of 18:10 leaves (a row with pending      *)
(* fields only, and its request); with the photos of that clock and those   *)
(* whose phone stamped them ten minutes after the next instant.             *)
RouteClock == InstantAt(2)
RouteStates ==
    {<<{}, <<>>>>,
     <<{MarkSlot(Attendance(1, Date(RouteClock), 1), "in",
                 Date(RouteClock) * DaySeconds + 28200, 100, 0, "Place 100/0", 1)}, <<>>>>,
     <<{SetPending(Attendance(1, Date(RouteClock), 1), "in", RouteClock + 600, 5000, 0,
                   "Place 5000/0")},
       <<AttendanceApproval(1, Date(RouteClock), "in", 5000, 0, "Place 5000/0",
                            RouteClock + 600)>>>>}
RoutePhotos ==
    Photos(RouteClock)
    \cup {Photo("ok", TRUE, g, Succ(RouteClock) + MaxSkewMinutes * 60, "read", NoGps, NULL) :
              g \in PhotoPlaces}
InRoute ==
    /\ call.fn = "attendance_in"
    /\ \E o \in attendance_in(call.args[1][1], call.args[1][2], RouteClock, 1,
                               call.args[2]) : Return(o)
OutRoute ==
    /\ call.fn = "attendance_out"
    /\ \E o \in attendance_out(call.args[1][1], call.args[1][2], RouteClock, 1,
                                call.args[2]) : Return(o)

(* Site lists for the proximity check of a photo taken at (0, 0): up to     *)
(* MaxSites sites, each at 0 m, 1000 m, 2000 m (the radius), 2010 m or      *)
(* 5000 m; a site's id is its place in the list.                            *)
SiteLatitudes == {0, 1000, 2000, 2010, 5000}
SiteLists ==
    UNION {{[i \in 1..n |-> [id |-> i, latitude |-> f[i], longitude |-> 0]] :
               f \in [1..n -> SiteLatitudes]} : n \in 0..MaxSites}

Proximity ==
    /\ call.fn = "is_within_site_range"
    /\ Return(is_within_site_range(call.args[1], call.args[2], call.args[3]))

InitFun ==
    /\ now = InstantAt(1)
    /\ att = {}
    /\ appr = <<>>
    /\ commits = 0
    /\ inflight = [p \in Requests |-> Idle]
    /\ \/ call \in {Call("determine_attendance_status", <<i, o>>) :
                       i \in StatusTimes, o \in StatusTimes}
       \/ call \in {Call("calculate_working_hours", <<i, o>>) :
                       i \in StatusTimes, o \in StatusTimes}
       \/ call \in {Call("cleanup_incomplete_attendance", <<A, e>>) :
                       A \in SweepStores, e \in SweepEmployees}
       \/ call \in {Call("cleanup_all_incomplete_attendance", <<A>>) : A \in SweepStores}
       \/ call \in {Call("is_within_site_range", <<0, 0, sites>>) : sites \in SiteLists}
       \/ call \in {Call("found_date", <<a, b, 2025, 4>>) : a, b \in DateParts}
       \/ call \in {Call("found_date", <<a, b, 25, 2>>) : a, b \in DateParts}
       \/ call \in {Call("extract_gps_from_text_overlay", <<image>>) : image \in Images}
       \/ call \in {Call("attendance_in", <<S, photo>>) : S \in RouteStates, photo \in RoutePhotos}
       \/ call \in {Call("attendance_out", <<S, photo>>) : S \in RouteStates, photo \in RoutePhotos}
       \/ call \in {Call("extract_gps_and_datetime", <<photo, writeOk>>) :
                        photo \in {q \in Photos(InstantAt(1)) \cup Photos(InstantAt(3)) :
                                      q.file = "ok" /\ q.face},
                        writeOk \in BOOLEAN}

NextFun == \/ DetermineStatus
           \/ WorkingHours
           \/ SweepEmployee
           \/ SweepAll
           \/ Proximity
           \/ FoundDate
           \/ Overlay
           \/ Resolve
           \/ InRoute
           \/ OutRoute

SpecFun == InitFun /\ [][NextFun]_vars

----------------------------------------------------------------------------
(* C1.  Approval round trip.  (a) An out-of-range submission of direction d *)
(* that commits files a Pending request of direction d with the photo's     *)
(* coordinates and timestamp, and leaves the employee's row of that date    *)
(* with pending_approval = TRUE and pending_type = d.  (b) Approving a      *)
(* request fetches the row of (employee, approval.date) or creates it, and  *)
(* leaves exactly that row with the slot of the request's direction equal   *)
(* to the request's snapshot (time, latitude, longitude, address), every    *)
(* pending field cleared, and status and working_hours equal to             *)
(* determine_attendance_status and calculate_working_hours of its in_time   *)
(* and out_time.                                                            *)
C1_ApprovalRoundTrip ==
    /\ \A e \in Employees, d \in Directions, photo \in Photos(now) :
         (Evidenced(photo) /\ ~InRange(photo)) =>
            \A o \in Route(e, d, photo) :
               o.committed =>
                  /\ Len(o.appr) = Len(appr) + 1
                  /\ LET a == o.appr[Len(o.appr)]
                     IN /\ a.attendance_type = d /\ a.employee_id = e
                        /\ a.status = "Pending"
                        /\ a.date = Date(PhotoDt(photo)) /\ a.time = PhotoDt(photo)
                        /\ <<a.latitude, a.longitude>> = PhotoGps(photo)
                        /\ \E r \in RowsOf(o.att, e, a.date) :
                              r.pending_approval = TRUE /\ r.pending_type = d
    /\ \A id \in 1..Len(appr), admin \in Admins, remarks \in FormRemarks :
         \A o \in approve_attendance(att, appr, now, id, admin, remarks) :
            LET a == appr[id]
                before == RowsOf(att, a.employee_id, a.date)
                after == RowsOf(o.att, a.employee_id, a.date)
            IN /\ o.appr[id].status = "Approved"
               /\ Cardinality(after) = (IF before = {} THEN 1 ELSE Cardinality(before))
               /\ \E r \in after :
                     /\ Slot(r, a.attendance_type) = Snapshot(a)
                     /\ PendingCleared(r)
                     /\ Derived(r)
                     /\ o.att \ {r} \subseteq att

(* C1, witness: a request has been approved and its row carries the snapshot. *)
C1_Witness ==
    \E id \in 1..Len(appr) :
        /\ appr[id].status = "Approved"
        /\ \E r \in RowsOf(att, appr[id].employee_id, appr[id].date) :
              Slot(r, appr[id].attendance_type) = Snapshot(appr[id]) /\ PendingCleared(r)

(* C2.  Rejecting a request sets its status to Rejected with the decider,    *)
(* the decision time and the remarks, clears every pending field of the rows *)
(* of (employee, date) if there are any, creates no row, and leaves the      *)
(* IN/OUT slots, status and working_hours of every row as they were.         *)
C2_RejectFrame ==
    \A id \in 1..Len(appr), admin \in Admins, remarks \in FormRemarks :
        \A o \in reject_attendance(att, appr, now, id, admin, remarks) :
            LET a == appr[id]
                b == o.appr[id]
            IN /\ b.status = "Rejected" /\ b.approved_by = admin /\ b.approved_at = now
               /\ b.remarks = (IF remarks = NULLS THEN "Rejected by admin" ELSE remarks)
               /\ \A i \in 1..Len(appr) : i # id => o.appr[i] = appr[i]
               /\ Len(o.appr) = Len(appr)
               /\ Cardinality(o.att) = Cardinality(att)
               /\ \A r \in att : \E q \in Kept(o.att, r) :
                     /\ Facts(q) = Facts(r)
                     /\ q.site_id = r.site_id
                     /\ IF r.employee_id = a.employee_id /\ r.date = a.date
                        THEN Cardinality(RowsOf(att, r.employee_id, r.date)) = 1
                                 => PendingCleared(q)
                        ELSE q = r

(* C2, witness: a rejected request whose row is there, with its pending *)
(* fields cleared and a time in a slot.                                 *)
C2_Witness ==
    \E id \in 1..Len(appr) :
        /\ appr[id].status = "Rejected"
        /\ \E r \in RowsOf(att, appr[id].employee_id, appr[id].date) :
              PendingCleared(r) /\ r.in_time # NULL

(* C3.  A submission that returns accepted = FALSE leaves the rows of *)
(* attendance and of attendance_approval exactly as they were.        *)
C3_RejectedLeavesNoTrace ==
    \A e \in Employees, d \in Directions, photo \in Photos(now) :
        \A o \in Route(e, d, photo) :
            o.accepted = FALSE => o.att = att /\ o.appr = appr

(* C4.  In every reachable state the pending fields of every row are all *)
(* null with pending_approval = FALSE, or all populated with             *)
(* pending_approval = TRUE and a pending_type of in or out.              *)
C4_PendingAllOrNothing ==
    \A r \in att : PendingCleared(r) \/ PendingPopulated(r)

(* C4, witness: a row with its pending fields populated. *)
C4_Witness == \E r \in att : PendingPopulated(r)

(* C5.  Once a request is Approved or Rejected, no approve or reject of it *)
(* changes the request or any row of attendance.                           *)
C5_ResolvedOnce ==
    \A id \in 1..Len(appr), admin \in Admins, remarks \in FormRemarks :
        appr[id].status # "Pending" =>
            \A o \in approve_attendance(att, appr, now, id, admin, remarks)
                     \cup reject_attendance(att, appr, now, id, admin, remarks) :
                o.appr[id] = appr[id] /\ o.att = att

(* C6.  A sweep, per employee or global, deletes a row of today only if the *)
(* row has neither in_time nor out_time and no pending flag: a row with     *)
(* pending_approval = TRUE outlives every sweep.                            *)
C6_SweepKeepsPending ==
    \A o \in admin_dashboard(att, appr, now)
             \cup UNION {employee_dashboard(att, appr, now, e) : e \in Employees} :
        \A r \in att :
            (r.date = Date(now) /\ Kept(o.att, r) = {}) =>
                r.in_time = NULL /\ r.out_time = NULL /\ r.pending_approval = FALSE

(* C7.  A submission that passed every check and was out of range, so that *)
(* it filed an approval request, returns accepted = TRUE whether or not    *)
(* the admins could be notified.                                           *)
C7_OutOfRangeAccepted ==
    \A e \in Employees, d \in Directions, photo \in Photos(now) :
        \A o \in Route(e, d, photo) :
            Len(o.appr) > Len(appr) => o.accepted = TRUE

(* C8.  Time-skew boundary.  Of a submission with a verified face,           *)
(* coordinates and a timestamp, handled while the clock stands at one        *)
(* instant: when the photo's timestamp is 600 s before or after the clock    *)
(* and on the clock's calendar date, the submission is recorded (the slot    *)
(* is written and accepted = TRUE is returned when a site is in range, the   *)
(* approval request is filed when none is); when the timestamp is 601 s      *)
(* before or after the clock, or on another calendar date, the submission is *)
(* refused and nothing is written.                                           *)
C8_SkewBoundaryOnTheDay ==
    \A e \in Employees, d \in Directions, photo \in Photos(now) :
        LET dt == PhotoDt(photo)
            atTen == Abs(dt - now) = MaxSkewMinutes * 60 /\ Date(dt) = Date(now)
            past == Abs(dt - now) = MaxSkewMinutes * 60 + 1 \/ Date(dt) # Date(now)
        IN (Evidenced(photo) /\ (atTen \/ past)) =>
             \A o \in process_attendance(att, appr, e, d, photo, now, TRUE) :
                o.now = now =>
                   /\ atTen => /\ o.committed
                               /\ InRange(photo) => (o.accepted /\ o.msg = "marked")
                   /\ past => /\ ~o.committed /\ ~o.accepted
                              /\ o.att = att /\ o.appr = appr

(* C8, witness: a slot written with a timestamp 600 s from the clock. *)
C8_Witness ==
    \E r \in att :
        \/ r.in_time # NULL /\ Abs(now - r.in_time) = MaxSkewMinutes * 60
        \/ r.out_time # NULL /\ Abs(now - r.out_time) = MaxSkewMinutes * 60

(* C8 as first stated.  Of a submission with a verified face,              *)
(* coordinates and a timestamp, handled while the clock stands at one       *)
(* instant, at whatever time of day: a timestamp 600 s before or after the  *)
(* clock is recorded, one 601 s before or after is refused.                 *)
C8_SkewBoundaryAnyTime ==
    \A e \in Employees, d \in Directions, photo \in Photos(now) :
        Evidenced(photo) =>
            \A o \in process_attendance(att, appr, e, d, photo, now, TRUE) :
                o.now = now =>
                    /\ Abs(PhotoDt(photo) - now) = MaxSkewMinutes * 60 => o.committed
                    /\ Abs(PhotoDt(photo) - now) = MaxSkewMinutes * 60 + 1 => ~o.committed

(* C9.  With requests running concurrently, every reachable state has at *)
(* most one row of attendance for an (employee_id, date).                *)
C9_OneRowPerDay ==
    \A r \in att : Cardinality(RowsOf(att, r.employee_id, r.date)) <= 1

(* C10.  No step of a submission, an approval, a rejection or a sweep of    *)
(* either mode deletes a row that has in_time or out_time: the row is still *)
(* there after the step, with the times it had still populated.             *)
C10_PopulatedNeverDeleted ==
    [][\A r \in att :
          (r.in_time # NULL \/ r.out_time # NULL) =>
              \E q \in Kept(att', r) :
                  /\ r.in_time # NULL => q.in_time # NULL
                  /\ r.out_time # NULL => q.out_time # NULL]_vars

(* C10, witness: a row with in_time, and a pending request of a later day  *)
(* whose row is gone: a sweep has run since the row got its in_time.       *)
C10_Witness ==
    \E r \in att, id \in 1..Len(appr) :
        /\ r.in_time # NULL
        /\ appr[id].date > r.date
        /\ RowsOf(att, appr[id].employee_id, appr[id].date) = {}

(* C11.  Once a sweep has run, a row dated before today keeps its IN/OUT     *)
(* slots, its status and its working_hours under every operation that       *)
(* follows: an approval or a rejection of any request, a submission, a       *)
(* further sweep of either mode.                                             *)
C11_FinalizedFrozen ==
    \A S \in {cleanup_all_incomplete_attendance(att, Date(now))}
             \cup {o.att : o \in UNION {employee_dashboard(att, appr, now, e) :
                                           e \in Employees}} :
        \A o \in UNION {approve_attendance(S, appr, now, id, admin, remarks)
                            \cup reject_attendance(S, appr, now, id, admin, remarks) :
                            id \in 1..Len(appr), admin \in Admins, remarks \in FormRemarks}
                 \cup admin_dashboard(S, appr, now)
                 \cup UNION {employee_dashboard(S, appr, now, e) : e \in Employees}
                 \cup UNION {attendance_in(S, appr, now, e, photo)
                                 \cup attendance_out(S, appr, now, e, photo) :
                                 e \in Employees, photo \in Photos(now)} :
            \A r \in S :
                (r.date < Date(now) /\ r.employee_id \in Employees) =>
                    \E q \in Kept(o.att, r) : Facts(q) = Facts(r)

(* C12.  Sweep idempotence.  On the store of every reachable state, a sweep  *)
(* of either mode run a second time leaves the store the first run left, and *)
(* a row dated before today with exactly one of in_time and out_time is      *)
(* (Half Day, "0:00") after the first run.                                   *)
C12_SweepIdempotent ==
    LET today == Date(now)
        once == cleanup_all_incomplete_attendance(att, today)
    IN /\ cleanup_all_incomplete_attendance(once, today) = once
       /\ \A r \in att :
             (r.date < today /\ ((r.in_time = NULL) # (r.out_time = NULL))) =>
                 \A q \in Kept(once, r) : q.status = "Half Day" /\ q.working_hours = "0:00"
       /\ \A e \in Employees : \A first \in First(att, e, today) :
             LET s1 == cleanup_incomplete_attendance(att, e, today, first)
             IN \A second \in First(s1, e, today) :
                   cleanup_incomplete_attendance(s1, e, today, second) = s1

(* C13.  Stale-record guard.  A sweep of either mode deletes a row dated    *)
(* today whose in_time is of an earlier day (the per-employee sweep: a row  *)
(* of its employee).                                                        *)
C13_StaleDeleted ==
    (call.done /\ call.fn \in {"cleanup_incomplete_attendance",
                               "cleanup_all_incomplete_attendance"}) =>
        \A r \in call.args[1] :
            (/\ r.date = SweepToday
             /\ r.in_time # NULL /\ Date(r.in_time) < SweepToday
             /\ call.fn = "cleanup_incomplete_attendance" => r.employee_id = call.args[2])
                => Kept(call.result, r) = {}

(* C14.  determine_attendance_status returns Full Day exactly when IN is    *)
(* there with a time of day from 07:45:00 to 08:15:00 inclusive and OUT is  *)
(* there with a time of day of 18:00:00 or later; Half Day exactly when IN  *)
(* or OUT is there and that does not hold; Absent exactly when neither is   *)
(* there.                                                                   *)
C14_StatusRule ==
    (call.done /\ call.fn = "determine_attendance_status") =>
        LET i == call.args[1]
            o == call.args[2]
            full == /\ i # NULL /\ o # NULL
                    /\ 7 * 3600 + 45 * 60 <= i % (24 * 3600)
                    /\ i % (24 * 3600) <= 8 * 3600 + 15 * 60
                    /\ o % (24 * 3600) >= 18 * 3600
        IN /\ call.result \in {"Full Day", "Half Day", "Absent"}
           /\ call.result = "Full Day" <=> full
           /\ call.result = "Half Day" <=> ((i # NULL \/ o # NULL) /\ ~full)
           /\ call.result = "Absent" <=> (i = NULL /\ o = NULL)

(* C14, witness: Full Day returned for an IN at 08:15:00 sharp. *)
C14_Witness ==
    /\ call.done /\ call.fn = "determine_attendance_status"
    /\ call.args[1] # NULL /\ call.args[1] % (24 * 3600) = 8 * 3600 + 15 * 60
    /\ call.result = "Full Day"

(* C15.  calculate_working_hours returns "0:00" when IN or OUT is missing;   *)
(* for IN <= OUT it returns H:MM with H the whole hours of OUT - IN and MM   *)
(* the whole minutes that remain, in two digits: 09:00 and 17:45 give "8:45". *)
C15_WorkingHoursFormat ==
    (call.done /\ call.fn = "calculate_working_hours") =>
        LET i == call.args[1]
            o == call.args[2]
        IN /\ (i = NULL \/ o = NULL) => call.result = "0:00"
           /\ (i # NULL /\ o # NULL /\ i <= o) =>
                 \E h \in 0..((o - i) \div 3600), m \in 0..59 :
                    /\ h * 3600 + m * 60 <= o - i
                    /\ o - i < h * 3600 + m * 60 + 60
                    /\ call.result = ToString(h) \o ":"
                                     \o (IF m < 10 THEN "0" ELSE "") \o ToString(m)
           /\ (i = 9 * 3600 /\ o = 17 * 3600 + 45 * 60) => call.result = "8:45"

(* C15, witness: "8:45" returned for 09:00 and 17:45. *)
C15_Witness ==
    /\ call.done /\ call.fn = "calculate_working_hours"
    /\ call.args = <<9 * 3600, 17 * 3600 + 45 * 60>>
    /\ call.result = "8:45"

(* The distances of a proximity call, site by site, those within the radius, *)
(* and the smallest distance.                                                *)
SiteDistance(i) ==
    Distance(call.args[1], call.args[2], call.args[3][i].latitude,
             call.args[3][i].longitude)
SitesWithin == {i \in 1..Len(call.args[3]) : SiteDistance(i) <= 2000}
NearestSites ==
    {i \in 1..Len(call.args[3]) :
        \A j \in 1..Len(call.args[3]) : SiteDistance(i) <= SiteDistance(j)}

(* C16.  Proximity over a list of sites with radius 2 km.  within is TRUE   *)
(* exactly when some site is at a distance of at most the radius, a site at *)
(* exactly the radius included.  When TRUE, the site returned is the first  *)
(* of the list within the radius, with its own distance, which need not be  *)
(* the smallest.  When FALSE, no site is returned (None) and the distance   *)
(* is the smallest over all sites (infinite for an empty list).             *)
C16_ProximityNoSiteWhenFar ==
    (call.done /\ call.fn = "is_within_site_range") =>
        /\ call.result.within <=> SitesWithin # {}
        /\ call.result.within =>
              \E k \in SitesWithin :
                 /\ \A j \in SitesWithin : k <= j
                 /\ call.result.site = call.args[3][k].id
                 /\ call.result.distance = SiteDistance(k)
        /\ ~call.result.within =>
              /\ call.result.site = NULL
              /\ IF call.args[3] = <<>> THEN call.result.distance = NULL
                 ELSE \E k \in NearestSites : call.result.distance = SiteDistance(k)

(* C16, witness: the first site, at exactly the radius, is returned while a *)
(* later site of the list is nearer.                                        *)
C16_Witness ==
    /\ call.done /\ call.fn = "is_within_site_range"
    /\ call.result.within /\ call.result.distance = 2000
    /\ \E j \in 1..Len(call.args[3]) : SiteDistance(j) < 2000

(* C16 as first stated: when no site is within the radius, the result *)
(* carries the nearest site and the smallest distance.                *)
C16_ProximityNearestSiteWhenFar ==
    (call.done /\ call.fn = "is_within_site_range") =>
        /\ call.result.within <=> SitesWithin # {}
        /\ call.result.within =>
              \E k \in SitesWithin :
                 /\ \A j \in SitesWithin : k <= j
                 /\ call.result.site = call.args[3][k].id
                 /\ call.result.distance = SiteDistance(k)
        /\ (~call.result.within /\ call.args[3] # <<>>) =>
              \E k \in NearestSites :
                 /\ call.result.site = call.args[3][k].id
                 /\ call.result.distance = SiteDistance(k)

(* Why a photo with a verified face fails the evidence step on the day      *)
(* today: no coordinates in the EXIF block or the overlay, coordinates but *)
(* no timestamp that can be built, or a timestamp of another day.          *)
Cause(photo, today) ==
    IF photo.file # "ok" \/ ~photo.face THEN NULLS
    ELSE IF photo.exif_gps = NoGps /\ photo.ocr # "read" THEN NULLS
    ELSE IF PhotoGps(photo) = NoGps THEN "no coordinates"
    ELSE IF PhotoDt(photo) = NULL THEN "no timestamp"
    ELSE IF Date(PhotoDt(photo)) # today THEN "date mismatch"
    ELSE NULLS

(* C17.  Of two submissions rejected at the evidence step for different     *)
(* sub-causes (no coordinates, no usable timestamp, photo of another day), *)
(* read from the EXIF block or from the overlay, the messages differ.      *)
C17_MessagePerCause ==
    \A p, q \in {photo \in Photos(now) : Cause(photo, Date(now)) # NULLS} :
        Cause(p, Date(now)) # Cause(q, Date(now)) =>
            \A o1 \in attendance_in(att, appr, now, 1, p),
               o2 \in attendance_in(att, appr, now, 1, q) :
                (o1.now = now /\ o2.now = now) => o1.msg # o2.msg

(* C18.  The date read from a/b/yyyy is a function of the three numbers: if *)
(* a > 12 the day is a and the month b; else if b > 12 and a is at least 1, *)
(* the day is b and the month a; otherwise the day is a and the month b.    *)
(* 15/03/2025 and 03/15/2025 both give day 15 month 3, and 03/04/2025 gives *)
(* day 3 month 4.                                                           *)
C18_DateFromOneOnwards ==
    (call.done /\ call.fn = "found_date" /\ call.args[4] = 4) =>
        LET a == call.args[1]
            b == call.args[2]
        IN /\ call.result[3] = call.args[3]
           /\ a > 12 => (call.result[1] = a /\ call.result[2] = b)
           /\ (a <= 12 /\ b > 12 /\ a >= 1) => (call.result[1] = b /\ call.result[2] = a)
           /\ (a <= 12 /\ (b <= 12 \/ a < 1)) => (call.result[1] = a /\ call.result[2] = b)
           /\ (a = 15 /\ b = 3) => (call.result[1] = 15 /\ call.result[2] = 3)
           /\ (a = 3 /\ b = 15) => (call.result[1] = 15 /\ call.result[2] = 3)
           /\ (a = 3 /\ b = 4) => (call.result[1] = 3 /\ call.result[2] = 4)

(* C18, witness: 03/15/2025 has been read as day 15, month 3. *)
C18_Witness ==
    /\ call.done /\ call.fn = "found_date"
    /\ call.args = <<3, 15, 2025, 4>> /\ call.result = <<15, 3, 2025>>

(* C18 as first stated: whenever a is at most 12 and b is more than 12, the *)
(* day is b and the month a.                                                *)
C18_DateDisambiguation ==
    (call.done /\ call.fn = "found_date" /\ call.args[4] = 4) =>
        LET a == call.args[1]
            b == call.args[2]
        IN /\ call.result[3] = call.args[3]
           /\ a > 12 => (call.result[1] = a /\ call.result[2] = b)
           /\ (a <= 12 /\ b > 12) => (call.result[1] = b /\ call.result[2] = a)
           /\ (a <= 12 /\ b <= 12) => (call.result[1] = a /\ call.result[2] = b)

(* The variants of an overlay call in which a field is found. *)
WithGps == {i \in 1..Len(call.args[1].texts) : RangeValid(call.args[1].texts[i].gps)}
WithDate == {i \in 1..Len(call.args[1].texts) : call.args[1].texts[i].date # NoDate}
WithTime == {i \in 1..Len(call.args[1].texts) : call.args[1].texts[i].time # NULL}
WithAddress == {i \in 1..Len(call.args[1].texts) : call.args[1].texts[i].address # NULL}
Earliest(S) == CHOOSE i \in S : \A j \in S : i <= j

(* C19.  Over the four OCR variants in their fixed order, the pair the      *)
(* overlay extractor returns is that of the first variant with a pair in    *)
(* range, and the date, the time and the address returned are each the      *)
(* first match of that field, whichever variant gave the pair.              *)
C19_FirstVariantWins ==
    (call.done /\ call.fn = "extract_gps_from_text_overlay" /\ call.result.values = 5) =>
        LET texts == call.args[1].texts
        IN /\ WithGps # {} =>
                <<call.result.lat, call.result.lon>> = texts[Earliest(WithGps)].gps
           /\ WithDate # {} =>
                call.result.date = <<Earliest(WithDate), 3, 2025>>
           /\ WithTime # {} => call.result.time = texts[Earliest(WithTime)].time
           /\ WithAddress # {} =>
                call.result.address = texts[Earliest(WithAddress)].address

(* C20.  For an image without EXIF coordinates in whose overlay no pair in  *)
(* range is found, the image that cannot be read and the OCR that fails     *)
(* included, extract_gps_and_datetime returns nulls only, with no method,   *)
(* and raises nothing to its caller.                                        *)
C20_ResolverNeverRaises ==
    (/\ call.done /\ call.fn = "extract_gps_and_datetime"
     /\ call.args[1].exif_gps = NoGps
     /\ (call.args[1].ocr # "read" \/ call.args[1].ocr_gps = NoGps)) =>
        /\ ~call.result.raised
        /\ call.result.lat = NULL /\ call.result.lon = NULL /\ call.result.dt = NULL
        /\ call.result.method = NULLS

(* C21.  On the OCR path, coordinates without a datetime that can be built  *)
(* give null latitude, longitude and timestamp with TIME_PARSE_FAILED, and  *)
(* a datetime of another day gives the same nulls with DATE_MISMATCH; both  *)
(* leave the image file as it was.  The coordinates are written into the    *)
(* file only when coordinates, datetime and the date check have all         *)
(* succeeded, and the result is the successful one whether or not the write *)
(* succeeded.                                                               *)
C21_OcrFailuresAndInjection ==
    (call.done /\ call.fn = "extract_gps_and_datetime") =>
        LET photo == call.args[1]
            today == Date(now)
            overlay == photo.exif_gps = NoGps /\ photo.ocr = "read"
                       /\ photo.ocr_gps # NoGps
            nulls == /\ call.result.lat = NULL /\ call.result.lon = NULL
                     /\ call.result.dt = NULL
        IN /\ (overlay /\ photo.ocr_dt = NULL) =>
                (/\ nulls /\ call.result.method = "TIME_PARSE_FAILED"
                 /\ call.result.image = photo)
           /\ (overlay /\ photo.ocr_dt # NULL /\ Date(photo.ocr_dt) # today) =>
                (/\ nulls /\ call.result.method = "DATE_MISMATCH"
                 /\ call.result.image = photo)
           /\ call.result.image # photo =>
                (/\ overlay /\ photo.ocr_dt # NULL /\ Date(photo.ocr_dt) = today
                 /\ call.result.image.exif_gps = photo.ocr_gps)
           /\ (overlay /\ photo.ocr_dt # NULL /\ Date(photo.ocr_dt) = today) =>
                (/\ ~call.result.raised
                 /\ <<call.result.lat, call.result.lon>> = photo.ocr_gps
                 /\ call.result.dt = photo.ocr_dt
                 /\ call.result.method = "OCR+Injected"
                 /\ call.args[2] => call.result.image.exif_gps = photo.ocr_gps
                 /\ ~call.args[2] => call.result.image = photo)

(* C21, witness: an overlay dated another day was refused with its file *)
(* untouched.                                                           *)
C21_Witness ==
    /\ call.done /\ call.fn = "extract_gps_and_datetime"
    /\ call.result.method = "DATE_MISMATCH" /\ call.result.image = call.args[1]
    /\ call.args[1].ocr_gps # NoGps

(* The rows a sweep call is about: all rows, or those of its employee. *)
SweptRows ==
    {r \in call.args[1] : call.fn = "cleanup_incomplete_attendance"
                              => r.employee_id = call.args[2]}

(* C22.  The Daily Sweep on rows dated before today: a row with exactly one *)
(* of IN and OUT gets status Half Day and working_hours "0:00", a row with  *)
(* neither gets Absent and "0:00", a row with both is left as it is, no     *)
(* such row is deleted, and the per-employee sweep changes no row of        *)
(* another employee.                                                        *)
C22_SweepRule ==
    (call.done /\ call.fn \in {"cleanup_incomplete_attendance",
                               "cleanup_all_incomplete_attendance"}) =>
        /\ \A r \in SweptRows :
              r.date < SweepToday =>
                  LET one == (r.in_time = NULL) # (r.out_time = NULL)
                      none == r.in_time = NULL /\ r.out_time = NULL
                  IN /\ Kept(call.result, r) # {}
                     /\ \A q \in Kept(call.result, r) :
                           q = IF one THEN [r EXCEPT !.status = "Half Day",
                                                     !.working_hours = "0:00"]
                               ELSE IF none THEN [r EXCEPT !.status = "Absent",
                                                           !.working_hours = "0:00"]
                               ELSE r
        /\ \A r \in call.args[1] \ SweptRows : r \in call.result
        /\ \A q \in call.result : Kept(call.args[1], q) # {}

(* C22, witness: the per-employee sweep has finalized an empty row of a     *)
(* past day of its employee, next to a row of another employee.             *)
C22_Witness ==
    /\ call.done /\ call.fn = "cleanup_incomplete_attendance"
    /\ \E r \in call.args[1], q \in call.result :
          /\ SameRow(r, q) /\ r.employee_id = call.args[2] /\ r.date < SweepToday
          /\ r.in_time = NULL /\ r.out_time = NULL
          /\ r.working_hours # "0:00" /\ q.working_hours = "0:00" /\ q.status = "Absent"
    /\ \E r \in call.args[1] : r.employee_id # call.args[2]

(* The clock reads of a request that comes in at t, and whether a photo is *)
(* of the day of one of them and within ten minutes of one of them.        *)
ClockReads(t) == {t} \cup (IF Later(t) # {} THEN {Succ(t)} ELSE {})
Fresh(photo, t) ==
    /\ Evidenced(photo)
    /\ \E td \in ClockReads(t) : Date(PhotoDt(photo)) = Date(td)
    /\ \E tu \in ClockReads(t) : Abs(PhotoDt(photo) - tu) <= 600

(* C23.  The steps of a submission run in order and stop at the first that  *)
(* fails: a photo whose face does not verify is refused before the evidence *)
(* is looked at, one without evidence before the date and the time skew are *)
(* checked, and the sweep, the fetch-or-create and every write to a row or a *)
(* request come only after identity, evidence, date and skew have passed: a *)
(* submission that fails one of them leaves both tables as they were.       *)
C23_StepsInOrder ==
    (/\ call.done /\ call.fn \in {"attendance_in", "attendance_out"}
     /\ ~Fresh(call.args[2], RouteClock)) =>
        LET photo == call.args[2]
            o == call.result
        IN /\ o.att = call.args[1][1] /\ o.appr = call.args[1][2]
           /\ ~o.committed /\ ~o.accepted
           /\ (photo.file # "ok" \/ ~photo.face) =>
                 o.msg \in {"need_in", "no_photo", "bad_type", "face_failed"}
           /\ (photo.file = "ok" /\ photo.face /\ ~Evidenced(photo)) =>
                 o.msg \in {"need_in", "raised", "no_gps", "no_datetime"}
           /\ Evidenced(photo) =>
                 o.msg \in {"need_in", "no_gps", "date_mismatch", "time_skew"}

(* C23, witness: an IN submission was refused for its photo's time skew and *)
(* left alone a row of today that the sweep would have deleted.             *)
C23_Witness ==
    /\ call.done /\ call.fn = "attendance_in" /\ call.result.msg = "time_skew"
    /\ \E r \in call.args[1][1] : DeletesEmpty(r) /\ r \in call.result.att

(* C24.  In every state reached by submissions, approvals, rejections and   *)
(* sweeps one after the other, the status of every row is                   *)
(* determine_attendance_status of its in_time and out_time: Absent for a    *)
(* row created with pending fields only, Half Day for a half-open row.      *)
C24_StatusDerived ==
    \A r \in att :
        /\ r.status = determine_attendance_status(r.in_time, r.out_time)
        /\ (r.in_time = NULL /\ r.out_time = NULL) => r.status = "Absent"
        /\ (r.in_time = NULL) # (r.out_time = NULL) => r.status = "Half Day"

(* C24, witness: a row with an IN in the grace window and an OUT after *)
(* 18:00 is Full Day.                                                  *)
C24_Witness ==
    \E r \in att : r.in_time # NULL /\ r.out_time # NULL /\ r.status = "Full Day"

(* The Pending requests of the (employee, date) of a row. *)
PendingRequests(r) ==
    {i \in 1..Len(appr) : /\ appr[i].employee_id = r.employee_id
                          /\ appr[i].date = r.date
                          /\ appr[i].status = "Pending"}

(* C25.  In every reachable state the pending_approval flag of a row is     *)
(* TRUE exactly when a Pending request of its (employee, date) exists, and  *)
(* then the row's pending type, coordinates and time are the snapshot of    *)
(* such a request.                                                          *)
C25_PendingMatchesRequests ==
    \A r \in att :
        /\ r.pending_approval <=> PendingRequests(r) # {}
        /\ r.pending_approval =>
              \E i \in PendingRequests(r) :
                 /\ r.pending_type = appr[i].attendance_type
                 /\ r.pending_latitude = appr[i].latitude
                 /\ r.pending_longitude = appr[i].longitude
                 /\ r.pending_time = appr[i].time

(* A photo with EXIF coordinates and no EXIF timestamp is refused. *)
NoStampRejected ==
    \A e \in Employees, d \in Directions :
        \A photo \in {p \in Photos(now) : /\ p.file = "ok" /\ p.face
                                          /\ p.exif_gps # NoGps /\ p.exif_dt = NULL} :
            \A o \in Route(e, d, photo) :
                ~o.accepted /\ ~o.committed /\ o.att = att /\ o.appr = appr

(* The timestamps a step of a submission writes: that of the request it    *)
(* files, or that of the IN or OUT slot it sets (a slot set with            *)
(* coordinates in range of a site: an approval copies the coordinates of a  *)
(* request, which are out of range).  Each is of the day of a clock read of *)
(* the request and within ten minutes of one.                               *)
StampsValidated ==
    LET ok(t) == /\ t # NULL
                 /\ \E td \in {now, now'} : Date(t) = Date(td)
                 /\ \E tu \in {now, now'} : Abs(t - tu) <= 600
    IN /\ Len(appr') > Len(appr) => ok(appr'[Len(appr')].time)
       /\ \A r \in att' : \A d \in Directions :
             (/\ Slot(r, d)[2] # NULL
              /\ is_within_site_range(Slot(r, d)[2], Slot(r, d)[3], Sites).within
              /\ \A q \in Kept(att, r) : Slot(q, d) # Slot(r, d))
                 => ok(Slot(r, d)[1])

(* C26.  Every timestamp a submission writes into an IN or OUT slot or into *)
(* a request is non-null, of the calendar date of the server clock when it  *)
(* was validated and at most 10 minutes from it, whether the evidence came  *)
(* from the EXIF block or from the overlay; and a photo with EXIF           *)
(* coordinates but no EXIF timestamp is always refused.                     *)
C26_WrittenStampsFresh == []NoStampRejected /\ [][StampsValidated]_vars

(* C26, witness: a submission has filed a request and another has set an *)
(* IN slot, each with a timestamp.                                       *)
C26_Witness ==
    /\ \E i \in 1..Len(appr) : appr[i].time # NULL
    /\ \E r \in att : r.in_time # NULL /\ r.in_latitude = 100

(* C27.  In every reachable state, a row with both in_time and out_time has *)
(* an out_time not earlier than its in_time, so that working_hours is never *)
(* of a negative duration.                                                  *)
C27_OutNotBeforeIn ==
    \A r \in att : (r.in_time # NULL /\ r.out_time # NULL) => r.in_time <= r.out_time

(* C28.  An OUT submission is refused with nothing changed unless the row   *)
(* of its employee for today has in_time; and so, with the clock free to    *)
(* advance between the guard of the route and the write, a row with         *)
(* out_time also has in_time after it.                                      *)
C28_OutNeedsIn ==
    (call.done /\ call.fn = "attendance_out") =>
        /\ (\A r \in RowsOf(call.args[1][1], 1, Date(RouteClock)) : r.in_time = NULL) =>
              (/\ ~call.result.accepted /\ ~call.result.committed
               /\ call.result.att = call.args[1][1]
               /\ call.result.appr = call.args[1][2])
        /\ \A r \in call.result.att : r.out_time # NULL => r.in_time # NULL

(* C29.  In every reachable state every timestamp of a row is of the row's  *)
(* own date: in_time, out_time and pending_time, when set, are of r.date;   *)
(* and so the per-employee sweep never finds a row of today whose in_time   *)
(* is of an earlier day.                                                    *)
C29_StampsOfRowDate ==
    \A r \in att :
        /\ r.in_time # NULL => Date(r.in_time) = r.date
        /\ r.out_time # NULL => Date(r.out_time) = r.date
        /\ r.pending_time # NULL => Date(r.pending_time) = r.date
        /\ \A today \in {Date(t) : t \in Instants} :
              r.date = today => ~DeletesStale(r, today)

(* C29, witness: a row of a past day with in_time, out_time and a pending *)
(* request, each with a timestamp.                                        *)
C29_Witness ==
    \E r \in att : /\ r.in_time # NULL /\ r.out_time # NULL /\ r.pending_time # NULL
                   /\ r.date < Date(now)

(* C30.  When an in-range IN and an in-range OUT, or an approval, of one    *)
(* (employee, date) row run concurrently, each reading the row before the   *)
(* other commits, then once both have committed the status and the          *)
(* working_hours of the row are determine_attendance_status and             *)
(* calculate_working_hours of the in_time and out_time it holds.            *)
C30_DerivedAfterRace ==
    InFlight = {} =>
        \A r \in att : (r.in_time # NULL \/ r.out_time # NULL) => Derived(r)

====
